---- MODULE Spec2Model ----
(***************************************************************************)
(* The CAN transfer framing codec of pyuavcan.                             *)
(*                                                                         *)
(* serialize_transfer (transport/can/_session/_transfer_sender.py) is a    *)
(* Python generator: the call creates a suspended generator, the first     *)
(* advance runs the body up to the first yield, every later advance runs   *)
(* to the next yield or to the end.  The frames it yields are handed, in   *)
(* order, to the reception session of the peer (the reassembler).          *)
(***************************************************************************)
EXTENDS Integers, Sequences, FiniteSets, TLC

VARIABLES
    compiled_identifier,      \* argument of the call
    transfer_id,              \* argument of the call
    fragmented_payload,       \* argument of the call: a sequence of byte sequences
    max_frame_payload_bytes,  \* argument of the call
    loopback,                 \* argument of the call
    pc,                       \* position of the generator
    error,                    \* the exception the generator raised, or "none"
    pending,                  \* chunks of the refragmented stream not yet yielded
    index,                    \* enumerate() index of the next chunk
    frames,                   \* every frame yielded so far, in order
    nfed,                     \* how many of them the reassembler has consumed
    rx,                       \* reception state of the session
    delivered,                \* transfers the reassembler handed to its caller
    rx_errors,                \* reception errors the reassembler reported
    wire                      \* every frame the reassembler was fed, in order

vars == << compiled_identifier, transfer_id, fragmented_payload,
           max_frame_payload_bytes, loopback, pc, error, pending, index,
           frames, nfed, rx, delivered, rx_errors, wire >>

args == << compiled_identifier, transfer_id, fragmented_payload,
           max_frame_payload_bytes, loopback >>

-----------------------------------------------------------------------------
(* Bounds of the model. *)

\* longest payload of the calls that try every fragmentation
MaxPayloadLen == 9
\* longest payload of the calls that pass it as one fragment
MaxLongPayloadLen == 20
\* largest max_frame_payload_bytes of a generated call (the smallest is 0,
\* an invalid one)
MaxFramePayload == 11
\* most fragments a generated payload is split into
MaxFragments == 2
\* frames the sender may have yielded that the receiver has not consumed yet
MaxInFlight == 1

-----------------------------------------------------------------------------
(* Byte strings: sequences of numbers in 0..255. *)

\* _PADDING_PATTERN = b'\x55'
PADDING_PATTERN == 85

\* _frame.TRANSFER_CRC_LENGTH_BYTES
TRANSFER_CRC_LENGTH_BYTES == 2

RECURSIVE Concat(_)
\* The concatenation of a sequence of byte strings.
Concat(bufs) ==
    IF bufs = << >> THEN << >> ELSE Head(bufs) \o Concat(Tail(bufs))

\* b * n for a one-byte pattern b
Repeat(b, n) == [i \in 1..n |-> b]

\* bytes(range(n))
Range(n) == [i \in 1..n |-> (i - 1) % 256]

-----------------------------------------------------------------------------
(* CAN frame lengths. *)

\* The data lengths a CAN or CAN FD frame can have (tail byte included).
DlcLengths == (0..8) \cup {12, 16, 20, 24, 32, 48, 64}

\* UAVCANFrame.get_required_padding(payload_length_without_tail_byte): the
\* number of bytes missing for the payload plus the tail byte to reach the
\* next legal frame length.
get_required_padding(n) ==
    CHOOSE p \in 0..16 :
        /\ (n + 1 + p) \in DlcLengths
        /\ \A q \in 0..(p - 1) : (n + 1 + q) \notin DlcLengths

-----------------------------------------------------------------------------
(* pyuavcan.util.hash.CRC16CCITT *)

\* x with the bit of weight w (a power of two) inverted.
FlipBit(x, w) == IF (x \div w) % 2 = 1 THEN x - w ELSE x + w

\* x XOR 0x1021, the CCITT polynomial.
XorPoly(x) == FlipBit(FlipBit(FlipBit(x, 4096), 32), 1)

\* One message bit shifted into the 16-bit register, most significant bit
\* first: the register is reduced by the polynomial when the bit shifted out
\* differs from the message bit.
CrcBit(v, bit) ==
    LET s == (v * 2) % 65536
    IN  IF (v >= 32768) # (bit = 1) THEN XorPoly(s) ELSE s

\* One byte fed to the CRC.
CrcAddByte(v, b) ==
    LET r7 == CrcBit(v, (b \div 128) % 2)
        r6 == CrcBit(r7, (b \div 64) % 2)
        r5 == CrcBit(r6, (b \div 32) % 2)
        r4 == CrcBit(r5, (b \div 16) % 2)
        r3 == CrcBit(r4, (b \div 8) % 2)
        r2 == CrcBit(r3, (b \div 4) % 2)
        r1 == CrcBit(r2, (b \div 2) % 2)
    IN  CrcBit(r1, b % 2)

RECURSIVE CrcAddFrom(_, _, _)
\* The bytes data[i], data[i+1], ... fed to the CRC in order.
CrcAddFrom(v, data, i) ==
    IF i > Len(data) THEN v
    ELSE LET w == CrcAddByte(v, data[i])
         IN  IF w \in Nat THEN CrcAddFrom(w, data, i + 1) ELSE w

\* CRC16CCITT.add(data): feeds the bytes of data in order.
CrcAdd(v, data) == CrcAddFrom(v, data, 1)

\* CRC16CCITT(): the initial value of the register.
CrcInit == 65535

-----------------------------------------------------------------------------
(* pyuavcan.util.refragment *)

\* The byte string s cut into chunks of exactly n bytes, the last one holding
\* the remainder; an empty string gives no chunk at all.  Needs n >= 1.
Chunks(s, n) ==
    [k \in 1..((Len(s) + n - 1) \div n) |->
        SubSeq(s, (k - 1) * n + 1, IF k * n < Len(s) THEN k * n ELSE Len(s))]

\* refragment(input_fragments, output_fragment_size)
Refragment(bufs, n) == Chunks(Concat(bufs), n)

-----------------------------------------------------------------------------
(* serialize_transfer *)

\* The validity check rejecting max_frame_payload_bytes = 1 as well.
IsInvalidMaxOffByOne(mfpb) == mfpb <= 1

\* if max_frame_payload_bytes < 1: raise ValueError
IsInvalidMax(mfpb) == mfpb < 1

\* payload_length taken from the last fragment alone instead of the sum.
payload_length_last(frags) ==
    IF frags = << >> THEN 0 ELSE Len(frags[Len(frags)])

RECURSIVE payload_length(_)
\* payload_length = sum(map(len, fragmented_payload))
payload_length(frags) ==
    IF frags = << >> THEN 0 ELSE Len(Head(frags)) + payload_length(Tail(frags))

\* if payload_length <= max_frame_payload_bytes: single-frame transfer
IsSingleFrame(len, mfpb) == len <= mfpb

\* The single-frame path without the padding.
SingleFrameChunksUnpadded(frags, mfpb) ==
    Refragment(frags, mfpb)

\* The single-frame path up to the unpacking of the refragmented payload:
\* the chunks of fragmented_payload chained with the padding.
SingleFrameChunks(frags, mfpb) ==
    LET padding_length == get_required_padding(payload_length(frags))
    IN  Refragment(frags \o << Repeat(PADDING_PATTERN, padding_length) >>, mfpb)

\* The frame of a single-frame transfer with the toggle bit starting at 0.
SingleFrameToggleClear(ident, tid, payload, lb) ==
    [ identifier        |-> ident,
      padded_payload    |-> payload,
      transfer_id       |-> tid,
      start_of_transfer |-> TRUE,
      end_of_transfer   |-> TRUE,
      toggle_bit        |-> FALSE,
      loopback          |-> lb ]

\* The frame of a single-frame transfer.
SingleFrame(ident, tid, payload, lb) ==
    [ identifier        |-> ident,
      padded_payload    |-> payload,
      transfer_id       |-> tid,
      start_of_transfer |-> TRUE,
      end_of_transfer   |-> TRUE,
      toggle_bit        |-> TRUE,
      loopback          |-> lb ]

\* The multi-frame padding computed from the payload remainder alone, the
\* length of the CRC left out of the length that is rounded up.
MultiFramePaddingNoCrc(len, mfpb) ==
    LET last_frame_payload_length == len % mfpb
    IN  IF last_frame_payload_length + TRANSFER_CRC_LENGTH_BYTES >= mfpb
        THEN << >>
        ELSE Repeat(PADDING_PATTERN, get_required_padding(last_frame_payload_length))

\* The multi-frame padding skipped only when the payload remainder and the
\* CRC exceed the frame capacity, not when they fill it exactly.
MultiFramePaddingStrict(len, mfpb) ==
    LET last_frame_payload_length == len % mfpb
    IN  IF last_frame_payload_length + TRANSFER_CRC_LENGTH_BYTES > mfpb
        THEN << >>
        ELSE LET last_frame_data_length ==
                     last_frame_payload_length + TRANSFER_CRC_LENGTH_BYTES
             IN  Repeat(PADDING_PATTERN, get_required_padding(last_frame_data_length))

\* "Compute padding" of the multi-frame path: the padding bytes.
MultiFramePadding(len, mfpb) ==
    LET last_frame_payload_length == len % mfpb
    IN  IF last_frame_payload_length + TRANSFER_CRC_LENGTH_BYTES >= mfpb
        THEN << >>
        ELSE LET last_frame_data_length ==
                     last_frame_payload_length + TRANSFER_CRC_LENGTH_BYTES
             IN  Repeat(PADDING_PATTERN, get_required_padding(last_frame_data_length))

RECURSIVE CrcAddAll(_, _)
\* for frag in fragmented_payload: crc.add(frag)
CrcAddAll(v, frags) ==
    IF frags = << >> THEN v
    ELSE LET w == CrcAdd(v, Head(frags))
         IN  IF w \in Nat THEN CrcAddAll(w, Tail(frags)) ELSE w

\* "Compute CRC; padding is also CRC-protected": crc.value after the
\* fragments and the padding were added.
TransferCrc(frags, padding) == CrcAdd(CrcAddAll(CrcInit, frags), padding)

\* The trailing bytes with the CRC low byte first.
TrailingBytesLittleEndian(padding, crc) == padding \o << crc % 256, crc \div 256 >>

\* trailing_bytes = padding + bytes([crc.value >> 8, crc.value & 0xFF])
TrailingBytes(padding, crc) == padding \o << crc \div 256, crc % 256 >>

RECURSIVE RefragmentEach(_, _)
\* Every buffer refragmented on its own, the chunks of all of them in order.
RefragmentEach(bufs, n) ==
    IF bufs = << >> THEN << >>
    ELSE Refragment(<< Head(bufs) >>, n) \o RefragmentEach(Tail(bufs), n)

\* The multi-frame chunks with the fragments refragmented one by one
\* instead of as one chained stream.
MultiFrameChunksUnchained(frags, mfpb) ==
    LET padding == MultiFramePadding(payload_length(frags), mfpb)
        trailing_bytes == TrailingBytes(padding, TransferCrc(frags, padding))
    IN  RefragmentEach(frags \o << trailing_bytes >>, mfpb)

\* The multi-frame path up to the emission loop: the chunks of
\* fragmented_payload chained with the trailing bytes.
MultiFrameChunks(frags, mfpb) ==
    LET padding == MultiFramePadding(payload_length(frags), mfpb)
        trailing_bytes == TrailingBytes(padding, TransferCrc(frags, padding))
    IN  Refragment(frags \o << trailing_bytes >>, mfpb)

\* start_of_transfer set on the frame of index 1 instead of index 0.
StartOfTransferOffByOne(idx) == idx = 1

\* start_of_transfer=index == 0
StartOfTransfer(idx) == idx = 0

\* The toggle bit starting at 0 instead of 1.
ToggleBitOdd(idx) == idx % 2 = 1

\* The toggle bit set on every frame.
ToggleBitStuck(idx) == idx >= 0

\* toggle_bit=index % 2 == 0
ToggleBit(idx) == idx % 2 = 0

\* One frame of a multi-frame transfer carrying the transfer-ID advanced by
\* the index of the frame.
MultiFrameTidPerFrame(ident, tid, frag, idx, last, lb) ==
    [ identifier        |-> ident,
      padded_payload    |-> frag,
      transfer_id       |-> tid + idx,
      start_of_transfer |-> StartOfTransfer(idx),
      end_of_transfer   |-> last,
      toggle_bit        |-> ToggleBit(idx),
      loopback          |-> lb ]

\* One frame of a multi-frame transfer.
MultiFrame(ident, tid, frag, idx, last, lb) ==
    [ identifier        |-> ident,
      padded_payload    |-> frag,
      transfer_id       |-> tid,
      start_of_transfer |-> StartOfTransfer(idx),
      end_of_transfer   |-> last,
      toggle_bit        |-> ToggleBit(idx),
      loopback          |-> lb ]

\* UAVCANFrame.compile(): the tail byte appended to the payload on the wire.
TailByte(f) ==
    (IF f.start_of_transfer THEN 128 ELSE 0)
  + (IF f.end_of_transfer THEN 64 ELSE 0)
  + (IF f.toggle_bit THEN 32 ELSE 0)
  + (f.transfer_id % 32)

-----------------------------------------------------------------------------
(* The transfer reassembler: one reception session. *)

\* The reception state of a session with no transfer in progress.
RxIdle == [ phase |-> "IDLE", transfer_id |-> 0, buffer |-> << >>, toggle |-> FALSE ]

\* The CRC check reduced to the presence of the two CRC bytes.
CrcVerifiesLengthOnly(buffer) ==
    Len(buffer) >= TRANSFER_CRC_LENGTH_BYTES

\* The CRC check of a completed multi-frame reception: the CRC of the
\* accumulated bytes without their last two equals those two, big-endian.
CrcVerifies(buffer) ==
    /\ Len(buffer) >= TRANSFER_CRC_LENGTH_BYTES
    /\ LET n == Len(buffer) - TRANSFER_CRC_LENGTH_BYTES
       IN  CrcAdd(CrcInit, SubSeq(buffer, 1, n)) = buffer[n + 1] * 256 + buffer[n + 2]

\* The continuation check without the toggle bit.
ContinuationValidNoToggle(r, f) ==
    /\ r.phase = "ACCUMULATING"
    /\ f.transfer_id % 32 = r.transfer_id

\* Whether a continuation frame is acceptable in reception state r.
ContinuationValid(r, f) ==
    /\ r.phase = "ACCUMULATING"
    /\ f.transfer_id % 32 = r.transfer_id
    /\ f.toggle_bit # r.toggle

\* feed(frame) with a start-of-transfer frame honoured only by an idle session,
\* and handled as a continuation frame by one that is accumulating.
FeedFrameStartOnlyWhenIdle(r, f) ==
    IF f.start_of_transfer /\ r.phase = "IDLE"
    THEN IF f.end_of_transfer
         THEN [ state |-> RxIdle, deliver |-> << f.padded_payload >>, err |-> << >> ]
         ELSE [ state |-> [ phase       |-> "ACCUMULATING",
                            transfer_id |-> f.transfer_id % 32,
                            buffer      |-> f.padded_payload,
                            toggle      |-> f.toggle_bit ],
                deliver |-> << >>, err |-> << >> ]
    ELSE IF ~ContinuationValid(r, f)
         THEN [ state |-> RxIdle, deliver |-> << >>,
                err |-> << IF r.phase = "IDLE" THEN "OrphanContinuation"
                           ELSE IF f.transfer_id % 32 # r.transfer_id
                                THEN "TransferIdMismatch"
                                ELSE "ToggleViolation" >> ]
         ELSE LET buffer == r.buffer \o f.padded_payload
              IN  IF ~f.end_of_transfer
                  THEN [ state |-> [ r EXCEPT !.buffer = buffer,
                                              !.toggle = f.toggle_bit ],
                         deliver |-> << >>, err |-> << >> ]
                  ELSE IF CrcVerifies(buffer)
                       THEN [ state |-> RxIdle,
                              deliver |-> << SubSeq(buffer, 1,
                                  Len(buffer) - TRANSFER_CRC_LENGTH_BYTES) >>,
                              err |-> << >> ]
                       ELSE [ state |-> RxIdle, deliver |-> << >>,
                              err |-> << "CrcMismatch" >> ]

\* feed(frame): the result of one frame processed in reception state r, as
\* the next state, the transfer delivered (or none) and the error reported
\* (or none).
FeedFrame(r, f) ==
    IF f.start_of_transfer
    THEN IF f.end_of_transfer
         THEN [ state |-> RxIdle, deliver |-> << f.padded_payload >>, err |-> << >> ]
         ELSE [ state |-> [ phase       |-> "ACCUMULATING",
                            transfer_id |-> f.transfer_id % 32,
                            buffer      |-> f.padded_payload,
                            toggle      |-> f.toggle_bit ],
                deliver |-> << >>, err |-> << >> ]
    ELSE IF ~ContinuationValid(r, f)
         THEN [ state |-> RxIdle, deliver |-> << >>,
                err |-> << IF r.phase = "IDLE" THEN "OrphanContinuation"
                           ELSE IF f.transfer_id % 32 # r.transfer_id
                                THEN "TransferIdMismatch"
                                ELSE "ToggleViolation" >> ]
         ELSE LET buffer == r.buffer \o f.padded_payload
              IN  IF ~f.end_of_transfer
                  THEN [ state |-> [ r EXCEPT !.buffer = buffer,
                                              !.toggle = f.toggle_bit ],
                         deliver |-> << >>, err |-> << >> ]
                  ELSE IF CrcVerifies(buffer)
                       THEN [ state |-> RxIdle,
                              deliver |-> << SubSeq(buffer, 1,
                                  Len(buffer) - TRANSFER_CRC_LENGTH_BYTES) >>,
                              err |-> << >> ]
                       ELSE [ state |-> RxIdle, deliver |-> << >>,
                              err |-> << "CrcMismatch" >> ]

-----------------------------------------------------------------------------
(* The calls the model makes. *)

\* The calls of _unittest_can_serialize_transfer, as
\* << compiled_identifier, transfer_id, fragmented_payload,
\*    max_frame_payload_bytes, loopback >>.
TestCalls ==
    { << 195936510, 32, << << 72, 101, 108, 108 >>, << 111 >> >>, 7, FALSE >>,
      << 195936510, 51, << Range(60) >>, 63, TRUE >>,
      << 195936510, 323219, << Range(30) >>, 7, FALSE >>,
      << 123456, 32323219, << Range(29) >>, 15, TRUE >>,
      << 123456, 32323219, << Range(30) >>, 11, FALSE >> }

\* The payloads of the generated calls: counting bytes, as the tests use,
\* and bytes equal to the padding pattern.
Payloads ==
    { Range(n) : n \in 0..MaxPayloadLen }
        \cup { Repeat(PADDING_PATTERN, n) : n \in 1..MaxPayloadLen }

RECURSIVE Splits(_, _)
\* Every way of cutting byte string p into at most k fragments, empty
\* fragments included.
Splits(p, k) ==
    IF k = 0 THEN (IF p = << >> THEN { << >> } ELSE {})
    ELSE (IF p = << >> THEN { << >> } ELSE {})
         \cup UNION { { << SubSeq(p, 1, i) >> \o rest :
                            rest \in Splits(SubSeq(p, i + 1, Len(p)), k - 1) } :
                        i \in 0..Len(p) }

\* Calls that split a short payload in every way.
FragmentedCalls ==
    { << 123456, 0, frags, mfpb, FALSE >> :
        frags \in UNION { Splits(p, MaxFragments) : p \in Payloads },
        mfpb \in 0..MaxFramePayload }

\* Calls that pass a payload of any length up to MaxLongPayloadLen as one
\* fragment.
LongCalls ==
    { << 123456, tid, << Range(n) >>, mfpb, lb >> :
        tid \in {19, 32},
        n \in 0..MaxLongPayloadLen,
        mfpb \in 0..MaxFramePayload,
        lb \in BOOLEAN }

GeneratedCalls == FragmentedCalls \cup LongCalls

-----------------------------------------------------------------------------
(* The state machine. *)

\* The state right after serialize_transfer(...) returned: the generator
\* exists, none of its body has run.
Init ==
    /\ \E call \in TestCalls \cup GeneratedCalls :
          /\ compiled_identifier = call[1]
          /\ transfer_id = call[2]
          /\ fragmented_payload = call[3]
          /\ max_frame_payload_bytes = call[4]
          /\ loopback = call[5]
    /\ pc = "created"
    /\ error = "none"
    /\ pending = << >>
    /\ index = 0
    /\ frames = << >>
    /\ nfed = 0
    /\ rx = RxIdle
    /\ delivered = << >>
    /\ rx_errors = << >>
    /\ wire = << >>

\* The receiver can take another frame from the sender.
CanYield == Len(frames) - nfed < MaxInFlight

\* First advance of the generator, max_frame_payload_bytes < 1: the
\* ValueError of the first statement.
StartInvalid ==
    /\ pc = "created"
    /\ IsInvalidMax(max_frame_payload_bytes)
    /\ pc' = "raised"
    /\ error' = "ValueError: Invalid max payload"
    /\ UNCHANGED << compiled_identifier, transfer_id, fragmented_payload,
                    max_frame_payload_bytes, loopback, pending, index, frames,
                    nfed, rx, delivered, rx_errors, wire >>

\* First advance of the generator, single-frame transfer: runs to the yield,
\* or to the failure of the unpacking "payload, = tuple(refragmented)" or
\* of the assertion after it.
StartSingle ==
    /\ pc = "created"
    /\ ~IsInvalidMax(max_frame_payload_bytes)
    /\ IsSingleFrame(payload_length(fragmented_payload), max_frame_payload_bytes)
    /\ CanYield
    /\ LET chunks == SingleFrameChunks(fragmented_payload, max_frame_payload_bytes)
       IN  IF Len(chunks) # 1
           THEN /\ pc' = "raised"
                /\ error' = "ValueError: unpack"
                /\ frames' = frames
           ELSE IF ~(/\ max_frame_payload_bytes >= Len(chunks[1])
                     /\ Len(chunks[1]) >= payload_length(fragmented_payload))
           THEN /\ pc' = "raised"
                /\ error' = "AssertionError"
                /\ frames' = frames
           ELSE /\ pc' = "yielded_single"
                /\ error' = error
                /\ frames' = Append(frames,
                       SingleFrame(compiled_identifier, transfer_id, chunks[1],
                                   loopback))
    /\ UNCHANGED << compiled_identifier, transfer_id, fragmented_payload,
                    max_frame_payload_bytes, loopback, pending, index, nfed,
                    rx, delivered, rx_errors, wire >>

\* First advance of the generator, multi-frame transfer: padding, CRC and
\* refragmentation, then the first frame of the emission loop.
StartMulti ==
    /\ pc = "created"
    /\ ~IsInvalidMax(max_frame_payload_bytes)
    /\ ~IsSingleFrame(payload_length(fragmented_payload), max_frame_payload_bytes)
    /\ CanYield
    /\ LET chunks == MultiFrameChunks(fragmented_payload, max_frame_payload_bytes)
       IN  /\ frames' = Append(frames,
                  MultiFrame(compiled_identifier, transfer_id, Head(chunks), 0,
                             Len(chunks) = 1, loopback))
           /\ pending' = Tail(chunks)
    /\ index' = 1
    /\ pc' = "yielded_multi"
    /\ UNCHANGED << compiled_identifier, transfer_id, fragmented_payload,
                    max_frame_payload_bytes, loopback, error, nfed, rx,
                    delivered, rx_errors, wire >>

\* A later advance of the generator after the frame of a single-frame
\* transfer: the function returns.
ResumeSingle ==
    /\ pc = "yielded_single"
    /\ pc' = "done"
    /\ UNCHANGED << compiled_identifier, transfer_id, fragmented_payload,
                    max_frame_payload_bytes, loopback, error, pending, index,
                    frames, nfed, rx, delivered, rx_errors, wire >>

\* A later advance of the generator inside the emission loop: the next frame,
\* or the end of the loop.
ResumeMulti ==
    /\ pc = "yielded_multi"
    /\ IF pending = << >>
       THEN /\ pc' = "done"
            /\ UNCHANGED << pending, index, frames >>
       ELSE /\ CanYield
            /\ frames' = Append(frames,
                   MultiFrame(compiled_identifier, transfer_id, Head(pending),
                              index, Len(pending) = 1, loopback))
            /\ pending' = Tail(pending)
            /\ index' = index + 1
            /\ pc' = pc
    /\ UNCHANGED << compiled_identifier, transfer_id, fragmented_payload,
                    max_frame_payload_bytes, loopback, error, nfed, rx,
                    delivered, rx_errors, wire >>

\* The reception session consumes the oldest frame it has not seen yet.
Feed ==
    /\ nfed < Len(frames)
    /\ LET out == FeedFrame(rx, frames[nfed + 1])
       IN  /\ rx' = out.state
           /\ delivered' = delivered \o out.deliver
           /\ rx_errors' = rx_errors \o out.err
    /\ wire' = Append(wire, frames[nfed + 1])
    /\ nfed' = nfed + 1
    /\ UNCHANGED << compiled_identifier, transfer_id, fragmented_payload,
                    max_frame_payload_bytes, loopback, pc, error, pending,
                    index, frames >>

Next ==
    \/ StartInvalid
    \/ StartSingle
    \/ StartMulti
    \/ ResumeSingle
    \/ ResumeMulti
    \/ Feed

Spec == Init /\ [][Next]_vars

-----------------------------------------------------------------------------
(* Vocabulary of the properties. *)

\* The logical payload of the transfer.
Payload == Concat(fragmented_payload)

\* Its length, counted on the payload itself.
Total == Len(Payload)

ValidMax == max_frame_payload_bytes >= 1

\* The call is one of a multi-frame transfer.
IsMulti == ValidMax /\ Total > max_frame_payload_bytes

\* The generator has finished, by returning or by raising.
Finished == pc \in {"done", "raised"}

\* The data bytes of all frames yielded so far, in order.
Stream == Concat([i \in 1..Len(frames) |-> frames[i].padded_payload])

\* d is the payload followed only by padding bytes.
IsPaddedPayload(d) ==
    /\ Len(d) >= Total
    /\ SubSeq(d, 1, Total) = Payload
    /\ \A i \in (Total + 1)..Len(d) : d[i] = PADDING_PATTERN

\* The number of bytes between the payload and the CRC in the stream of a
\* finished multi-frame transfer.
PaddingLength == Len(Stream) - Total - TRANSFER_CRC_LENGTH_BYTES

\* The least p >= 0 with base + p a legal frame length.
LeastPaddingTo(base) ==
    CHOOSE p \in 0..16 :
        /\ (base + p) \in DlcLengths
        /\ \A q \in 0..(p - 1) : (base + q) \notin DlcLengths

HelloCall == << 195936510, 32, << << 72, 101, 108, 108 >>, << 111 >> >>, 7, FALSE >>

CrcVectorCall == << 195936510, 323219, << Range(30) >>, 7, FALSE >>

\* The frames serialize_transfer yields for fragment list frags and the other
\* arguments of the call, none if it raises before the first.
ExpectedFrames(frags) ==
    IF IsInvalidMax(max_frame_payload_bytes) THEN << >>
    ELSE IF IsSingleFrame(payload_length(frags), max_frame_payload_bytes)
    THEN LET chunks == SingleFrameChunks(frags, max_frame_payload_bytes)
         IN  IF Len(chunks) # 1 THEN << >>
             ELSE << SingleFrame(compiled_identifier, transfer_id, chunks[1],
                                 loopback) >>
    ELSE LET chunks == MultiFrameChunks(frags, max_frame_payload_bytes)
         IN  [i \in 1..Len(chunks) |->
                 MultiFrame(compiled_identifier, transfer_id, chunks[i], i - 1,
                            i = Len(chunks), loopback)]

-----------------------------------------------------------------------------
(* Properties. *)

\* C1: round trip.  For every payload, fragmentation and
\* max_frame_payload_bytes >= 1, once the generator has finished and the
\* reassembler has consumed every frame, exactly one transfer was delivered
\* and it is the payload followed only by padding bytes.
C1_RoundTrip ==
    (ValidMax /\ Finished /\ nfed = Len(frames)) =>
        /\ Len(delivered) = 1
        /\ IsPaddedPayload(delivered[1])

\* The round trip of the calls the serializer completes: what C1 states,
\* for the runs in which the generator returned.
RoundTripOfCompletedCalls ==
    (pc = "done" /\ nfed = Len(frames)) =>
        /\ Len(delivered) = 1
        /\ IsPaddedPayload(delivered[1])
        /\ rx_errors = << >>

\* C2: single-frame framing.  Whenever the total payload length is at most
\* max_frame_payload_bytes, the finished generator has yielded exactly one
\* frame, with start_of_transfer = end_of_transfer = toggle_bit = TRUE, whose
\* data is the payload followed only by padding (no CRC).
C2_SingleFrame ==
    (ValidMax /\ Total <= max_frame_payload_bytes /\ Finished) =>
        /\ error = "none"
        /\ Len(frames) = 1
        /\ frames[1].start_of_transfer
        /\ frames[1].end_of_transfer
        /\ frames[1].toggle_bit
        /\ IsPaddedPayload(frames[1].padded_payload)

\* C3: multi-frame toggle alternation.  In a multi-frame transfer the frame
\* of index i (from 0) has its toggle bit set exactly when i is even: the
\* first frame has it set and consecutive frames differ.
C3_ToggleAlternation ==
    IsMulti =>
        /\ \A i \in 1..Len(frames) : frames[i].toggle_bit = ((i - 1) % 2 = 0)
        /\ \A i \in 1..(Len(frames) - 1) :
               frames[i].toggle_bit # frames[i + 1].toggle_bit

C3_Witness == IsMulti /\ pc = "done" /\ Len(frames) >= 4

\* C4: multi-frame boundary flags.  A multi-frame transfer never raises; its
\* first frame and no other has start_of_transfer set; no frame but the last
\* one has end_of_transfer set; and the finished transfer has at least two
\* frames, the last of which has end_of_transfer set.
C4_BoundaryFlags ==
    IsMulti =>
        /\ error = "none"
        /\ \A i \in 1..Len(frames) : frames[i].start_of_transfer = (i = 1)
        /\ \A i \in 1..Len(frames) :
               frames[i].end_of_transfer => (i = Len(frames) /\ pending = << >>)
        /\ \A i \in 1..Len(frames) :
               ~(frames[i].start_of_transfer /\ frames[i].end_of_transfer)
        /\ pc = "done" =>
               /\ Len(frames) >= 2
               /\ frames[Len(frames)].end_of_transfer

C4_Witness == IsMulti /\ pc = "done" /\ Len(frames) = 2

\* C5: fragment-boundary independence.  The frames yielded for a fragment
\* list are those yielded for the same bytes passed as one fragment, the
\* other arguments being equal: the same frames in the same order at every
\* point of the run, all of them once the generator has returned, and none
\* if it raises.
C5_FragmentIndependence ==
    LET expected == ExpectedFrames(<< Payload >>)
    IN  /\ Len(frames) <= Len(expected)
        /\ frames = SubSeq(expected, 1, Len(frames))
        /\ pc = "done" => (frames = expected /\ expected # << >>)
        /\ pc = "raised" => expected = << >>

C5_Witness ==
    /\ pc = "done"
    /\ IsMulti
    /\ Len(fragmented_payload) = 2
    /\ fragmented_payload[1] # << >>
    /\ fragmented_payload[2] # << >>
    /\ Len(fragmented_payload[1]) % max_frame_payload_bytes # 0

\* C6: multi-frame byte layout.  The data of the frames of a finished
\* multi-frame transfer, concatenated in order, is the payload, then padding
\* bytes only, then the two CRC bytes; every frame but the last carries
\* exactly max_frame_payload_bytes bytes and the last one between 1 and
\* max_frame_payload_bytes.
C6_ByteLayout ==
    IsMulti =>
        /\ \A i \in 1..(Len(frames) - 1) :
               Len(frames[i].padded_payload) = max_frame_payload_bytes
        /\ \A i \in 1..Len(frames) :
               /\ Len(frames[i].padded_payload) >= 1
               /\ Len(frames[i].padded_payload) <= max_frame_payload_bytes
        /\ pc = "done" =>
               /\ PaddingLength >= 0
               /\ IsPaddedPayload(SubSeq(Stream, 1, Total + PaddingLength))
               /\ SubSeq(Stream, Len(Stream) - 1, Len(Stream)) =
                      << TransferCrc(fragmented_payload,
                                     Repeat(PADDING_PATTERN, PaddingLength)) \div 256,
                         TransferCrc(fragmented_payload,
                                     Repeat(PADDING_PATTERN, PaddingLength)) % 256 >>

\* A finished multi-frame transfer whose stream is an exact multiple of
\* max_frame_payload_bytes, split over two fragments.
C6_Witness ==
    /\ IsMulti
    /\ pc = "done"
    /\ Len(Stream) % max_frame_payload_bytes = 0
    /\ Len(frames[Len(frames)].padded_payload) = max_frame_payload_bytes
    /\ Len(fragmented_payload) = 2

\* C7 as stated: with rem = total mod max_frame_payload_bytes, no padding
\* when rem + 2 >= max_frame_payload_bytes, otherwise the least padding that
\* makes rem + 2 + padding a legal length; the padding is 0x55 bytes between
\* payload and CRC, and then rem + padding + 2 <= max_frame_payload_bytes.
C7_PaddingRuleAsStated ==
    (IsMulti /\ pc = "done") =>
        LET rem == Total % max_frame_payload_bytes
        IN  /\ PaddingLength >= 0
            /\ IsPaddedPayload(SubSeq(Stream, 1, Total + PaddingLength))
            /\ rem + TRANSFER_CRC_LENGTH_BYTES >= max_frame_payload_bytes
                   => PaddingLength = 0
            /\ rem + TRANSFER_CRC_LENGTH_BYTES < max_frame_payload_bytes
                   => PaddingLength = LeastPaddingTo(rem + TRANSFER_CRC_LENGTH_BYTES)
            /\ rem + TRANSFER_CRC_LENGTH_BYTES < max_frame_payload_bytes
                   => rem + PaddingLength + TRANSFER_CRC_LENGTH_BYTES
                          <= max_frame_payload_bytes

\* C7, amended: no padding when rem + 2 >= max_frame_payload_bytes,
\* otherwise the least padding that makes rem + 2 + padding + 1, the length
\* of the last frame with its tail byte, a legal frame length; the padding
\* is 0x55 bytes between payload and CRC; and in that case rem + padding + 2
\* is at most max_frame_payload_bytes whenever max_frame_payload_bytes + 1 is
\* itself a legal frame length.
C7_PaddingRule ==
    (IsMulti /\ pc = "done") =>
        LET rem == Total % max_frame_payload_bytes
        IN  /\ PaddingLength >= 0
            /\ IsPaddedPayload(SubSeq(Stream, 1, Total + PaddingLength))
            /\ rem + TRANSFER_CRC_LENGTH_BYTES >= max_frame_payload_bytes
                   => PaddingLength = 0
            /\ rem + TRANSFER_CRC_LENGTH_BYTES < max_frame_payload_bytes
                   => PaddingLength =
                          LeastPaddingTo(rem + TRANSFER_CRC_LENGTH_BYTES + 1)
            /\ (/\ rem + TRANSFER_CRC_LENGTH_BYTES < max_frame_payload_bytes
                /\ (max_frame_payload_bytes + 1) \in DlcLengths)
                   => rem + PaddingLength + TRANSFER_CRC_LENGTH_BYTES
                          <= max_frame_payload_bytes

C7_Witness ==
    /\ IsMulti
    /\ pc = "done"
    /\ PaddingLength > 0
    /\ (max_frame_payload_bytes + 1) \in DlcLengths

\* C8: CRC trailer.  The last two bytes of the stream of a finished
\* multi-frame transfer are the CRC-16/CCITT-FALSE of all the bytes before
\* them, high byte first; for the 30 bytes 0x00..0x1D passed as one fragment
\* with max_frame_payload_bytes = 7 the CRC is 0x3554 and the data of the
\* last frame ends with 0x35 0x54.
C8_CrcTrailer ==
    (IsMulti /\ pc = "done") =>
        LET n == Len(Stream) - TRANSFER_CRC_LENGTH_BYTES
            crc == CrcAdd(CrcInit, SubSeq(Stream, 1, n))
            tail == frames[Len(frames)].padded_payload
        IN  /\ n >= Total
            /\ Stream[n + 1] = crc \div 256
            /\ Stream[n + 2] = crc % 256
            /\ args = CrcVectorCall =>
                   /\ crc = 13652
                   /\ Len(tail) >= 2
                   /\ tail[Len(tail) - 1] = 53
                   /\ tail[Len(tail)] = 84

C8_Witness == args = CrcVectorCall /\ pc = "done" /\ Len(frames) = 5

\* C9 as stated: b"Hello" passed as ["Hell", "o"] with
\* max_frame_payload_bytes = 7 gives one frame with SOT = EOT = TGL = 1 in
\* its tail byte and the data "Hello" followed by two bytes 0x55.
C9_HelloExampleAsStated ==
    (args = HelloCall /\ pc # "created") =>
        /\ Len(frames) = 1
        /\ TailByte(frames[1]) \div 32 = 7
        /\ frames[1].padded_payload = << 72, 101, 108, 108, 111, 85, 85 >>

\* C9, amended: the same call gives one frame with SOT = EOT = TGL = 1 in
\* its tail byte and the data "Hello" with no padding (5 bytes and the tail
\* byte make 6, a legal frame length).
C9_HelloExample ==
    (args = HelloCall /\ pc # "created") =>
        /\ error = "none"
        /\ Len(frames) = 1
        /\ TailByte(frames[1]) \div 32 = 7
        /\ frames[1].start_of_transfer
        /\ frames[1].end_of_transfer
        /\ frames[1].toggle_bit
        /\ frames[1].padded_payload = << 72, 101, 108, 108, 111 >>

C9_Witness == args = HelloCall /\ pc = "done"

\* C10 as stated: with max_frame_payload_bytes < 1 the call itself fails, so
\* in every state after the call the error has been raised.
C10_InvalidMaxAsStated ==
    max_frame_payload_bytes < 1 =>
        /\ pc = "raised"
        /\ error = "ValueError: Invalid max payload"
        /\ frames = << >>

\* C10, amended: with max_frame_payload_bytes < 1 the call returns the
\* generator without an error and the first advance of it raises the
\* invalid-maximum error; no frame is ever produced, and that error is never
\* raised for max_frame_payload_bytes >= 1 nor after a frame was yielded.
C10_InvalidMax ==
    /\ max_frame_payload_bytes < 1 =>
           /\ frames = << >>
           /\ \/ pc = "created" /\ error = "none"
              \/ pc = "raised" /\ error = "ValueError: Invalid max payload"
    /\ error = "ValueError: Invalid max payload" =>
           /\ max_frame_payload_bytes < 1
           /\ frames = << >>
           /\ pc = "raised"

C10_Witness ==
    /\ max_frame_payload_bytes < 1
    /\ pc = "raised"
    /\ error = "ValueError: Invalid max payload"

-----------------------------------------------------------------------------
(* A reception session on a shared bus: the frames of several senders'
   transfers arrive in any order, with losses, restarts and corruption. *)

\* The frames a complete run of serialize_transfer(call) yields, none if it
\* raises before the first.
SerializedFrames(call) ==
    IF IsInvalidMax(call[4]) THEN << >>
    ELSE IF IsSingleFrame(payload_length(call[3]), call[4])
    THEN LET chunks == SingleFrameChunks(call[3], call[4])
         IN  IF Len(chunks) # 1 THEN << >>
             ELSE << SingleFrame(call[1], call[2], chunks[1], call[5]) >>
    ELSE LET chunks == MultiFrameChunks(call[3], call[4])
         IN  [i \in 1..Len(chunks) |->
                 MultiFrame(call[1], call[2], chunks[i], i - 1,
                            i = Len(chunks), call[5])]

\* The transfers on the bus: one of three frames, one of two frames with
\* another transfer-ID, and a single-frame one.
BusTransferA == << 123456, 19, << Range(3) >>, 2, FALSE >>

BusTransferB == << 123456, 20, << Range(4) >>, 3, FALSE >>

BusTransferC == << 123456, 21, << Range(2) >>, 7, FALSE >>

\* Frame f with the lowest bit of its first data byte flipped in transit.
Corrupted(f) ==
    [ f EXCEPT !.padded_payload[1] = IF @ % 2 = 0 THEN @ + 1 ELSE @ - 1 ]

\* The frames that can arrive: those of the three transfers, and the last
\* frame of the first transfer corrupted.
BusFrames ==
    LET a == SerializedFrames(BusTransferA)
        b == SerializedFrames(BusTransferB)
        c == SerializedFrames(BusTransferC)
    IN  { a[i] : i \in 1..Len(a) } \cup { b[i] : i \in 1..Len(b) }
        \cup { c[i] : i \in 1..Len(c) } \cup { Corrupted(a[Len(a)]) }

\* The number of frames the session receives.
MaxReceived == 5

\* The session is idle and the local serializer is not called.
InitRx ==
    /\ compiled_identifier = BusTransferA[1]
    /\ transfer_id = BusTransferA[2]
    /\ fragmented_payload = BusTransferA[3]
    /\ max_frame_payload_bytes = BusTransferA[4]
    /\ loopback = BusTransferA[5]
    /\ pc = "created"
    /\ error = "none"
    /\ pending = << >>
    /\ index = 0
    /\ frames = << >>
    /\ nfed = 0
    /\ rx = RxIdle
    /\ delivered = << >>
    /\ rx_errors = << >>
    /\ wire = << >>

\* feed(frame) for the next frame that arrives from the bus.
Receive ==
    /\ Len(wire) < MaxReceived
    /\ \E f \in BusFrames :
           LET out == FeedFrame(rx, f)
           IN  /\ rx' = out.state
               /\ delivered' = delivered \o out.deliver
               /\ rx_errors' = rx_errors \o out.err
               /\ wire' = Append(wire, f)
    /\ UNCHANGED << compiled_identifier, transfer_id, fragmented_payload,
                    max_frame_payload_bytes, loopback, pc, error, pending,
                    index, frames, nfed >>

NextRx == Receive

SpecRx == InitRx /\ [][NextRx]_vars

-----------------------------------------------------------------------------
(* The frames of one transfer on a lossy bus: on their way from the
   serializer to the reception session one continuation frame is lost, or
   one is repeated right after itself. *)

\* No frame was lost or repeated so far.
Undisturbed == Len(wire) = nfed

\* The oldest frame in flight, a continuation frame, is lost.
Drop ==
    /\ Undisturbed
    /\ nfed < Len(frames)
    /\ ~frames[nfed + 1].start_of_transfer
    /\ nfed' = nfed + 1
    /\ UNCHANGED << compiled_identifier, transfer_id, fragmented_payload,
                    max_frame_payload_bytes, loopback, pc, error, pending,
                    index, frames, rx, delivered, rx_errors, wire >>

\* The frame fed last, a continuation frame, arrives once more.
Duplicate ==
    /\ Undisturbed
    /\ nfed >= 1
    /\ ~frames[nfed].start_of_transfer
    /\ LET out == FeedFrame(rx, frames[nfed])
       IN  /\ rx' = out.state
           /\ delivered' = delivered \o out.deliver
           /\ rx_errors' = rx_errors \o out.err
    /\ wire' = Append(wire, frames[nfed])
    /\ UNCHANGED << compiled_identifier, transfer_id, fragmented_payload,
                    max_frame_payload_bytes, loopback, pc, error, pending,
                    index, frames, nfed >>

NextLossy ==
    \/ StartInvalid
    \/ StartSingle
    \/ StartMulti
    \/ ResumeSingle
    \/ ResumeMulti
    \/ Feed
    \/ Drop
    \/ Duplicate

SpecLossy == Init /\ [][NextLossy]_vars

-----------------------------------------------------------------------------
(* C11: the serializer is total for every max_frame_payload_bytes >= 1. *)

\* C11: for every max_frame_payload_bytes >= 1 and every fragment list, a
\* finished call has returned after yielding at least one frame, and the only
\* error any call raises is the one for max_frame_payload_bytes < 1.
C11_Totality ==
    /\ (error # "none") => ~ValidMax
    /\ (Finished /\ ValidMax) => (pc = "done" /\ Len(frames) >= 1)

-----------------------------------------------------------------------------
(* C12: the tail byte of every frame. *)

\* Bit b (of weight w = 2^b) of byte t.
TailBit(t, w) == (t \div w) % 2 = 1

\* C12: every frame yielded, of a single-frame or of a multi-frame transfer,
\* carries in bits 4..0 of its tail byte the same value, transfer_id mod 32
\* (32 gives 0; 51 and 323219 give 19), bit 7 being start_of_transfer, bit 6
\* end_of_transfer and bit 5 the toggle bit.
C12_TailByte ==
    \A i \in 1..Len(frames) :
        LET t == TailByte(frames[i])
        IN  /\ t \in 0..255
            /\ t % 32 = transfer_id % 32
            /\ (transfer_id = 32) => (t % 32 = 0)
            /\ (transfer_id \in {51, 323219}) => (t % 32 = 19)
            /\ TailBit(t, 128) <=> frames[i].start_of_transfer
            /\ TailBit(t, 64) <=> frames[i].end_of_transfer
            /\ TailBit(t, 32) <=> frames[i].toggle_bit

\* The five frames of the 30-byte test transfer with transfer-ID 323219 are
\* out, with tail bytes b3 13 33 13 73.
C12_Witness ==
    /\ args = CrcVectorCall
    /\ pc = "done"
    /\ [i \in 1..Len(frames) |-> TailByte(frames[i])] = << 179, 19, 51, 19, 115 >>

-----------------------------------------------------------------------------
(* C13..C15: the reception session, frame by frame. *)

\* The frame fed last, of the frames w fed so far.
LastFrame(w) == w[Len(w)]

\* The data bytes of the frames of w from its last start-of-transfer frame on.
SinceLastStart(w) ==
    LET s == CHOOSE i \in 1..Len(w) :
                 /\ w[i].start_of_transfer
                 /\ \A j \in (i + 1)..Len(w) : ~w[j].start_of_transfer
    IN  Concat([k \in 1..(Len(w) - s + 1) |-> w[s + k - 1].padded_payload])

\* A reception in progress holds the bytes of the frames since the last
\* start-of-transfer frame, and nothing of what came before it.
BufferIsSinceLastStart ==
    (rx.phase = "ACCUMULATING") =>
        /\ \E i \in 1..Len(wire) : wire[i].start_of_transfer
        /\ rx.buffer = SinceLastStart(wire)
        /\ rx.transfer_id = LastFrame(wire).transfer_id % 32
        /\ rx.toggle = LastFrame(wire).toggle_bit

\* One step of the session at a start-of-transfer frame: nothing of the
\* reception in progress is delivered or reported, and the new reception
\* starts from the frame.
NewStartWinsStep ==
    (wire' # wire /\ LastFrame(wire').start_of_transfer) =>
        LET f == LastFrame(wire')
        IN  /\ rx_errors' = rx_errors
            /\ IF f.end_of_transfer
               THEN /\ delivered' = Append(delivered, f.padded_payload)
                    /\ rx' = RxIdle
               ELSE /\ delivered' = delivered
                    /\ rx'.phase = "ACCUMULATING"
                    /\ rx'.transfer_id = f.transfer_id % 32
                    /\ rx'.buffer = f.padded_payload
                    /\ rx'.toggle = f.toggle_bit

\* One step of the session that delivers on a continuation frame: the
\* transfer delivered is made of the frames since the last start-of-transfer
\* frame only.
DeliversSinceLastStartStep ==
    (wire' # wire /\ delivered' # delivered
                  /\ ~LastFrame(wire').start_of_transfer) =>
        /\ \E i \in 1..Len(wire') : wire'[i].start_of_transfer
        /\ LET s == SinceLastStart(wire')
           IN  delivered' = Append(delivered,
                   SubSeq(s, 1, Len(s) - TRANSFER_CRC_LENGTH_BYTES))

\* C13: a start-of-transfer frame fed in any session state discards the
\* reception in progress without delivering it or notifying any completion
\* for it, and starts a new reception from that frame's transfer-ID and
\* payload; no later frame delivers the abandoned transfer.
C13_NewStartWins ==
    /\ []BufferIsSinceLastStart
    /\ [][NewStartWinsStep /\ DeliversSinceLastStartStep]_vars

\* The first two frames of the three-frame transfer were accumulated, then
\* the two-frame transfer started and completed: it alone is delivered, and
\* no error is reported.
C13_Witness ==
    /\ pc = "created"
    /\ Len(wire) = 4
    /\ wire = SubSeq(SerializedFrames(BusTransferA), 1, 2)
                  \o SerializedFrames(BusTransferB)
    /\ delivered = << Range(4) >>
    /\ rx_errors = << >>
    /\ rx = RxIdle

\* One step of the session at the last frame of a transfer: a single-frame
\* transfer is delivered as it is; a multi-frame one is delivered only if the
\* CRC of the accumulated bytes without their last two equals those two,
\* and a mismatch delivers nothing and leaves the session idle and empty.
CrcGateStep ==
    (wire' # wire) =>
        LET f == LastFrame(wire')
            buffer == rx.buffer \o f.padded_payload
            n == Len(buffer) - TRANSFER_CRC_LENGTH_BYTES
            matches == /\ n >= 0
                       /\ CrcAdd(CrcInit, SubSeq(buffer, 1, n))
                              = buffer[n + 1] * 256 + buffer[n + 2]
        IN  /\ (f.start_of_transfer /\ f.end_of_transfer) =>
                   delivered' = Append(delivered, f.padded_payload)
            /\ (~f.start_of_transfer /\ delivered' # delivered) =>
                   /\ f.end_of_transfer
                   /\ matches
                   /\ delivered' = Append(delivered, SubSeq(buffer, 1, n))
            /\ (~f.start_of_transfer /\ f.end_of_transfer /\ ~matches) =>
                   /\ delivered' = delivered
                   /\ rx' = RxIdle
                   /\ rx'.buffer = << >>

\* C14: a multi-frame transfer is delivered only if the CRC over the
\* accumulated bytes minus the final two equals those two (big-endian); on a
\* mismatch nothing is delivered, the buffer is discarded and the session is
\* IDLE; a single-frame transfer is delivered verbatim with no CRC check.
C14_CrcGate == [][CrcGateStep]_vars

\* The three-frame transfer arrived with its last frame corrupted: nothing is
\* delivered, the mismatch is reported and the session is idle.
C14_Witness ==
    /\ pc = "created"
    /\ Len(wire) = 3
    /\ SubSeq(wire, 1, 2) = SubSeq(SerializedFrames(BusTransferA), 1, 2)
    /\ wire[3] = Corrupted(SerializedFrames(BusTransferA)[3])
    /\ delivered = << >>
    /\ rx_errors = << "CrcMismatch" >>
    /\ rx = RxIdle

\* One step of the session at a continuation frame that is not acceptable,
\* and at a start-of-transfer frame.
ContinuationValidationStep ==
    (wire' # wire) =>
        LET f == LastFrame(wire')
        IN  /\ (/\ ~f.start_of_transfer
                /\ \/ rx.phase = "IDLE"
                   \/ f.transfer_id % 32 # rx.transfer_id
                   \/ f.toggle_bit = rx.toggle) =>
                   /\ delivered' = delivered
                   /\ rx' = RxIdle
                   /\ rx'.buffer = << >>
            /\ (f.start_of_transfer /\ ~f.end_of_transfer) =>
                   /\ rx'.phase = "ACCUMULATING"
                   /\ rx'.buffer = f.padded_payload

\* C15: a continuation frame that finds no active reception, another
\* transfer-ID, or a toggle bit not opposite to the previous frame's is
\* dropped: nothing is delivered, the buffer is discarded and the session is
\* IDLE, so every later continuation frame is dropped as well until a
\* start-of-transfer frame, which starts a fresh reception.
C15_ContinuationValidation == [][ContinuationValidationStep]_vars

\* The third frame of a transfer arrived right after the first and was
\* dropped for its toggle bit, the second frame that followed was dropped as
\* well, and the transfer that started next completed and was delivered.
C15_Witness ==
    /\ pc = "created"
    /\ Len(wire) = 5
    /\ LET a == SerializedFrames(BusTransferA)
       IN  SubSeq(wire, 1, 3) = << a[1], a[3], a[2] >>
    /\ SubSeq(wire, 4, 5) = SerializedFrames(BusTransferB)
    /\ rx_errors = << "ToggleViolation", "OrphanContinuation" >>
    /\ delivered = << Range(4) >>

-----------------------------------------------------------------------------
(* C17: the length of the data of every frame. *)

\* C17 as stated: the data of every frame yielded has a DLC-legal length
\* that is at most max_frame_payload_bytes.
C17_FrameLengthAsStated ==
    \A i \in 1..Len(frames) :
        /\ Len(frames[i].padded_payload) \in DlcLengths
        /\ Len(frames[i].padded_payload) <= max_frame_payload_bytes

\* C17: the data of every frame yielded, on the single-frame and on the
\* multi-frame path and for every max_frame_payload_bytes >= 1, is at most
\* max_frame_payload_bytes long, and its length with the tail byte is a
\* DLC-legal frame length whenever max_frame_payload_bytes + 1 is one.
C17_FrameLength ==
    \A i \in 1..Len(frames) :
        /\ Len(frames[i].padded_payload) <= max_frame_payload_bytes
        /\ ((max_frame_payload_bytes + 1) \in DlcLengths) =>
               ((Len(frames[i].padded_payload) + 1) \in DlcLengths)

\* The 60-byte test transfer with max_frame_payload_bytes = 63 is out as one
\* frame of 63 data bytes: 64 with the tail byte.
C17_Witness ==
    /\ args = << 195936510, 51, << Range(60) >>, 63, TRUE >>
    /\ pc = "done"
    /\ Len(frames) = 1
    /\ Len(frames[1].padded_payload) = 63
    /\ 63 \notin DlcLengths

-----------------------------------------------------------------------------
(* C18: the transfer without payload. *)

\* C18: a transfer of total length zero (no fragment, or empty fragments
\* only) serializes, for any max_frame_payload_bytes >= 1 and without error,
\* to exactly one frame with SOT, EOT and toggle set and no data.
C18_EmptyTransfer ==
    (ValidMax /\ Total = 0 /\ Finished) =>
        /\ error = "none"
        /\ frames = << SingleFrame(compiled_identifier, transfer_id, << >>,
                                   loopback) >>

-----------------------------------------------------------------------------
(* C19: the CRC when the padding is skipped. *)

\* The data bytes in the first k frames yielded.
BytesUpTo(k) == Len(Concat([i \in 1..k |-> frames[i].padded_payload]))

\* The index of the frame that carries byte p of the stream.
FrameOfByte(p) ==
    CHOOSE k \in 1..Len(frames) : BytesUpTo(k - 1) < p /\ p <= BytesUpTo(k)

\* The payload bytes left for the last frame.
LastFramePayloadLength == Total % max_frame_payload_bytes

\* A multi-frame transfer is out in full and its padding was skipped.
PaddingSkipped ==
    /\ IsMulti
    /\ pc = "done"
    /\ LastFramePayloadLength + TRANSFER_CRC_LENGTH_BYTES >= max_frame_payload_bytes

\* The last CRC byte is in a frame after the one with the last payload byte.
CrcOverflows == FrameOfByte(Len(Stream)) > FrameOfByte(Total)

\* C19 as stated: in every multi-frame transfer with
\* rem + 2 >= max_frame_payload_bytes, at least one CRC byte is carried by a
\* frame after the frame that carries the last payload byte.
C19_CrcOverflowAsStated == PaddingSkipped => CrcOverflows

\* C19: in every multi-frame transfer with rem + 2 >= max_frame_payload_bytes
\* no padding is added, and the CRC overflows into a frame after the one
\* that carries the last payload byte unless rem > 0 and
\* rem + 2 = max_frame_payload_bytes, where the CRC ends the very frame that
\* carries the last payload byte and fills it.
C19_CrcOverflow ==
    PaddingSkipped =>
        /\ PaddingLength = 0
        /\ IF /\ LastFramePayloadLength > 0
              /\ LastFramePayloadLength + TRANSFER_CRC_LENGTH_BYTES
                     = max_frame_payload_bytes
           THEN /\ ~CrcOverflows
                /\ Len(frames[Len(frames)].padded_payload)
                       = max_frame_payload_bytes
           ELSE CrcOverflows

\* The 29-byte test transfer with max_frame_payload_bytes = 15 is out: the
\* second frame ends with the last payload byte and the first CRC byte, and
\* a third frame carries the second CRC byte alone.
C19_Witness ==
    /\ args = << 123456, 32323219, << Range(29) >>, 15, TRUE >>
    /\ PaddingSkipped
    /\ Len(frames) = 3
    /\ FrameOfByte(Total) = 2
    /\ frames[3].padded_payload = << 111 >>

-----------------------------------------------------------------------------
(* C20: one continuation frame lost or repeated. *)

\* A continuation frame was lost.
Dropped == Len(wire) < nfed

\* A continuation frame was repeated.
Duplicated == Len(wire) > nfed

\* The frame repeated was the last one of the transfer.
DuplicatedFinal ==
    /\ Duplicated
    /\ \E i \in 1..(Len(wire) - 1) :
           wire[i] = wire[i + 1] /\ wire[i].end_of_transfer

\* The frames fed are the first frames yielded, unaltered.
FedIsPrefix ==
    /\ Len(wire) <= Len(frames)
    /\ \A i \in 1..Len(wire) : wire[i] = frames[i]

\* C20: the frames of one multi-frame transfer fed to an idle session with
\* one continuation frame removed, or with one continuation frame repeated
\* right after itself, deliver at most one transfer and never bytes other
\* than the payload followed by the padding; with a removed frame or a
\* repeated frame other than the last nothing is delivered. The frames
\* before the disturbance are accepted, and the first frame fed after a
\* removed frame, and the repeated copy, is rejected: by its toggle bit, or as
\* an orphan when the frame repeated is the last.
C20_LossAndDuplication ==
    IsMulti =>
        /\ Len(delivered) <= 1
        /\ \A i \in 1..Len(delivered) :
               /\ IsPaddedPayload(delivered[i])
               /\ Len(Stream) >= TRANSFER_CRC_LENGTH_BYTES
               /\ delivered[i] = SubSeq(Stream, 1,
                                     Len(Stream) - TRANSFER_CRC_LENGTH_BYTES)
        /\ Dropped => delivered = << >>
        /\ (Duplicated /\ ~DuplicatedFinal) => delivered = << >>
        /\ FedIsPrefix => rx_errors = << >>
        /\ ~FedIsPrefix =>
               /\ Dropped \/ Duplicated
               /\ rx = RxIdle
               /\ rx_errors # << >>
               /\ rx_errors[1] = IF DuplicatedFinal THEN "OrphanContinuation"
                                 ELSE "ToggleViolation"

\* The 30-byte test transfer of five frames arrived without its third frame:
\* the fourth frame is rejected for its toggle bit, the fifth as an orphan,
\* and nothing is delivered.
C20_Witness ==
    /\ args = CrcVectorCall
    /\ pc = "done"
    /\ Len(frames) = 5
    /\ nfed = 5
    /\ Dropped
    /\ wire = << frames[1], frames[2], frames[4], frames[5] >>
    /\ rx_errors = << "ToggleViolation", "OrphanContinuation" >>
    /\ delivered = << >>

====
